---- MODULE Spec2Model ----
(***************************************************************************)
(* Model of src/elt/main.py: the availability prober wait_for_postgres,    *)
(* the configuration reader read_config, the two external invocations      *)
(* dump_data / load_data and the orchestrator run_elt_pipeline.            *)
(*                                                                         *)
(* Two specifications share the variables:                                 *)
(*   Spec        one run of run_elt_pipeline()                             *)
(*   SpecProber  one direct call wait_for_postgres(host, N, delay)         *)
(* The external tools (pg_isready, pg_dump, psql) and the content of       *)
(* config.ini are the environment: every outcome subprocess.run can give   *)
(* is a nondeterministic choice.                                           *)
(***************************************************************************)
EXTENDS Naturals, Integers, Sequences, FiniteSets, TLC

VARIABLES
    pc,                 \* position of run_elt_pipeline (or "direct")
    wpc,                \* position of the current wait_for_postgres call
    host,               \* argument host of the current call
    max_retries,        \* argument max_retries of the current call
    delay_seconds,      \* argument delay_seconds of the current call
    retries,            \* local variable retries (line 57)
    result,             \* value returned by the current call, "none" before
    outcomes,           \* outcome of each pg_isready invocation of the call
    sleeps,             \* number of time.sleep(delay_seconds) in the call
    log,                \* the logger calls made so far, in order
    config,             \* content of config.ini: section -> (key -> value)
    source_config,      \* first dict returned by read_config, "none" before
    destination_config, \* second dict returned by read_config
    calls,              \* pg_dump / psql invocations made so far, in order
    stages,             \* functions the orchestrator has invoked, in order
    probe_results,      \* [host, result] of each returned prober call
    exit_code,          \* process exit status, "none" while running
    exc                 \* exception leaving the program, "none" otherwise

vars == <<pc, wpc, host, max_retries, delay_seconds, retries, result,
          outcomes, sleeps, log, config, source_config, destination_config,
          calls, stages, probe_results, exit_code, exc>>

proberVars == <<wpc, host, max_retries, delay_seconds, retries, result,
                outcomes, sleeps>>

pipelineVars == <<pc, source_config, destination_config, calls, stages,
                  probe_results, exit_code>>

(***************************************************************************)
(* Bounds of the model.                                                    *)
(***************************************************************************)
\* pg_isready invocations explored in one call of wait_for_postgres
MaxProbes == 6
\* largest max_retries argument of a direct call of wait_for_postgres
MaxRetriesArg == 3

(***************************************************************************)
(* Program constants.                                                      *)
(***************************************************************************)
DefaultMaxRetries == 5
DefaultDelaySeconds == 5
SourceHost == "source_postgres"
DestinationHost == "destination_postgres"
DumpFile == "data_dump.sql"

\* Arguments a direct caller passes to wait_for_postgres.
Hosts == {SourceHost, DestinationHost}
Delays == {0, DefaultDelaySeconds}

(***************************************************************************)
(* config.ini.  A configuration maps the sections it has to their options. *)
(***************************************************************************)
SectionNames == {"source_postgres", "destination_postgres",
                 "source_db", "destination_db"}
ConfigKeys == {"dbname", "user", "password", "host"}

BodySrc == [dbname |-> "src_db", user |-> "src_user",
            password |-> "src_pw", host |-> "source_postgres"]
BodyDst == [dbname |-> "dst_db", user |-> "dst_user",
            password |-> "dst_pw", host |-> "destination_postgres"]
\* a section that lacks the option host
BodyNoHost == [dbname |-> "src_db", user |-> "src_user", password |-> "src_pw"]
Bodies == {BodySrc, BodyDst, BodyNoHost}

Configs == UNION {[S -> Bodies] : S \in SUBSET SectionNames}

has_section(c, s) == s \in DOMAIN c

\* config.get(section, key): the value, or the exception configparser raises
ConfigGet(c, s, k) ==
    IF ~has_section(c, s) THEN [raised |-> "NoSectionError", value |-> "none"]
    ELSE IF k \notin DOMAIN c[s]
         THEN [raised |-> "NoOptionError", value |-> "none"]
         ELSE [raised |-> "none", value |-> c[s][k]]

\* the dict literal of lines 30-35 / 37-42: the four lookups in source order
KeyOrder == <<"dbname", "user", "password", "host">>

RECURSIVE FirstRaise(_, _, _)
FirstRaise(c, s, i) ==
    IF i > Len(KeyOrder) THEN "none"
    ELSE IF ConfigGet(c, s, KeyOrder[i]).raised # "none"
         THEN ConfigGet(c, s, KeyOrder[i]).raised
         ELSE FirstRaise(c, s, i + 1)

BuildConfig(c, s) ==
    [k \in ConfigKeys |-> ConfigGet(c, s, k).value]

\* the section names read_config reads the source and destination from
SourceSection == "source_db"
DestinationSection == "destination_db"

read_config(c) ==
    IF ~has_section(c, "source_postgres")
    THEN [raised |-> "ValueError", source |-> "none", destination |-> "none"]
    ELSE IF ~has_section(c, "destination_postgres")
    THEN [raised |-> "ValueError", source |-> "none", destination |-> "none"]
    ELSE IF FirstRaise(c, SourceSection, 1) # "none"
    THEN [raised |-> FirstRaise(c, SourceSection, 1),
          source |-> "none", destination |-> "none"]
    ELSE IF FirstRaise(c, DestinationSection, 1) # "none"
    THEN [raised |-> FirstRaise(c, DestinationSection, 1),
          source |-> "none", destination |-> "none"]
    ELSE [raised |-> "none",
          source |-> BuildConfig(c, SourceSection),
          destination |-> BuildConfig(c, DestinationSection)]

(***************************************************************************)
(* Logging: each logger call is recorded with its level and its format.    *)
(***************************************************************************)
LogInfo(m) == [level |-> "info", msg |-> m]
LogError(m) == [level |-> "error", msg |-> m]

MsgAvailable == "PostgreSQL server is available"
MsgNotAvailable == "PostgreSQL server is not available %s"
MsgRetrying == "Retrying in %s seconds..."
MsgGaveUp == "PostgreSQL server is not available after %s retries"
MsgRunning == "Running ELT pipeline..."
MsgDumpFailed == "Failed to dump data: %s"
MsgLoadFailed == "Failed to load data: %s"
MsgCompleted == "ELT pipeline completed"

(***************************************************************************)
(* wait_for_postgres (lines 47-75).                                        *)
(* Outcomes of subprocess.run(["pg_isready", "-h", host], check=True, ...):*)
(*   "accepting"  exit status 0, stdout contains "accepting connections"   *)
(*   "no_marker"  exit status 0, stdout without the marker                 *)
(*   "nonzero"    non-zero exit status: CalledProcessError                 *)
(*   "oserror"    the tool cannot be started: FileNotFoundError / OSError  *)
(***************************************************************************)
ProbeOutcomes == {"accepting", "no_marker", "nonzero", "oserror"}

\* the loop condition of line 59
LoopCondLe(r, n) == r <= n
LoopCond(r, n) == r < n

\* the call itself: bind the arguments, retries = 0 (line 57)
CallWait(h, n, d) ==
    /\ wpc' = "running"
    /\ host' = h
    /\ max_retries' = n
    /\ delay_seconds' = d
    /\ retries' = 0
    /\ result' = "none"
    /\ outcomes' = <<>>
    /\ sleeps' = 0

InLoop ==
    /\ wpc = "running"
    /\ LoopCond(retries, max_retries)
    /\ Len(outcomes) < MaxProbes

\* lines 61-66: exit 0 with the marker: log and return True
ProbeAccepting ==
    /\ InLoop
    /\ outcomes' = Append(outcomes, "accepting")
    /\ log' = Append(log, LogInfo(MsgAvailable))
    /\ result' = TRUE
    /\ wpc' = "returned"
    /\ UNCHANGED <<host, max_retries, delay_seconds, retries, sleeps>>
    /\ UNCHANGED <<pipelineVars, config, exc>>

\* ProbeNoMarker as if line 64 did not test the output: any exit 0 succeeds
ProbeNoMarkerReturnsTrue ==
    /\ InLoop
    /\ outcomes' = Append(outcomes, "no_marker")
    /\ log' = Append(log, LogInfo(MsgAvailable))
    /\ result' = TRUE
    /\ wpc' = "returned"
    /\ UNCHANGED <<host, max_retries, delay_seconds, retries, sleeps>>
    /\ UNCHANGED <<pipelineVars, config, exc>>

\* lines 61-64: exit 0 without the marker: the if is false, no exception is
\* raised, control falls to the loop condition with retries unchanged
ProbeNoMarker ==
    /\ InLoop
    /\ outcomes' = Append(outcomes, "no_marker")
    /\ UNCHANGED <<wpc, host, max_retries, delay_seconds, retries, result,
                   sleeps, log>>
    /\ UNCHANGED <<pipelineVars, config, exc>>

\* ProbeNonZero that sleeps only when another attempt will follow
ProbeNonZeroNoTrailingSleep ==
    /\ InLoop
    /\ outcomes' = Append(outcomes, "nonzero")
    /\ log' = log \o <<LogError(MsgNotAvailable), LogInfo(MsgRetrying)>>
    /\ retries' = retries + 1
    /\ sleeps' = IF retries + 1 < max_retries THEN sleeps + 1 ELSE sleeps
    /\ UNCHANGED <<wpc, host, max_retries, delay_seconds, result>>
    /\ UNCHANGED <<pipelineVars, config, exc>>

\* lines 68-72: CalledProcessError: log, retries += 1, log, sleep
ProbeNonZero ==
    /\ InLoop
    /\ outcomes' = Append(outcomes, "nonzero")
    /\ log' = log \o <<LogError(MsgNotAvailable), LogInfo(MsgRetrying)>>
    /\ retries' = retries + 1
    /\ sleeps' = sleeps + 1
    /\ UNCHANGED <<wpc, host, max_retries, delay_seconds, result>>
    /\ UNCHANGED <<pipelineVars, config, exc>>

\* lines 61-63, 68: an exception that is not CalledProcessError is not
\* handled by the except clause and leaves wait_for_postgres
ProbeOSError ==
    /\ InLoop
    /\ outcomes' = Append(outcomes, "oserror")
    /\ wpc' = "raised"
    /\ UNCHANGED <<host, max_retries, delay_seconds, retries, result,
                   sleeps, log>>
    /\ UNCHANGED <<pipelineVars, config, exc>>

\* lines 59, 74-75: the loop condition is false: log and return False
ProbeExhausted ==
    /\ wpc = "running"
    /\ ~LoopCond(retries, max_retries)
    /\ log' = Append(log, LogError(MsgGaveUp))
    /\ result' = FALSE
    /\ wpc' = "returned"
    /\ UNCHANGED <<host, max_retries, delay_seconds, retries, outcomes,
                   sleeps>>
    /\ UNCHANGED <<pipelineVars, config, exc>>

ProberStep ==
    \/ ProbeAccepting
    \/ ProbeNoMarker
    \/ ProbeNonZero
    \/ ProbeOSError
    \/ ProbeExhausted

(***************************************************************************)
(* A direct call wait_for_postgres(h, n, d).                               *)
(***************************************************************************)
InitProber ==
    /\ pc = "direct"
    /\ wpc = "running"
    /\ host \in Hosts
    /\ max_retries \in 0..MaxRetriesArg
    /\ delay_seconds \in Delays
    /\ retries = 0
    /\ result = "none"
    /\ outcomes = <<>>
    /\ sleeps = 0
    /\ log = <<>>
    /\ config = <<>>
    /\ source_config = "none"
    /\ destination_config = "none"
    /\ calls = <<>>
    /\ stages = <<>>
    /\ probe_results = <<>>
    /\ exit_code = "none"
    /\ exc = "none"

NextProber == ProberStep

SpecProber == InitProber /\ [][NextProber]_vars

(***************************************************************************)
(* dump_data (lines 78-104) and load_data (lines 107-133).                 *)
(* Outcomes of subprocess.run(command, env=..., check=True):               *)
(*   "ok"       exit status 0                                              *)
(*   "nonzero"  non-zero exit status: CalledProcessError                   *)
(*   "oserror"  the tool cannot be started: FileNotFoundError / OSError    *)
(***************************************************************************)
ToolOutcomes == {"ok", "nonzero", "oserror"}

dump_command(sc) ==
    <<"pg_dump", "-h", sc["host"], "-u", sc["user"], "-d", sc["dbname"],
      "-f", DumpFile, "-w">>

load_command(dc) ==
    <<"psql", "-h", dc["host"], "-U", dc["user"], "-d", dc["dbname"],
      "-a", "-f", DumpFile>>

subprocess_env(cfg) == [PGPASSWORD |-> cfg["password"]]

\* the record of one subprocess.run of dump_data / load_data
ToolCall(fn, cmd, env, o) ==
    [fn |-> fn, cmd |-> cmd, env |-> env, outcome |-> o]

Stage(fn, arg) == [fn |-> fn, arg |-> arg]

(***************************************************************************)
(* run_elt_pipeline (lines 136-169).                                       *)
(***************************************************************************)
\* what the orchestrator has seen of one returned wait_for_postgres call
ProbeResult(h, r, n) == [host |-> h, result |-> r, attempts |-> n]

\* the test of lines 142 and 146 on the value the prober returned
ProbeFailedNever(r) == FALSE
ProbeFailed(r) == ~r

\* line 142: call wait_for_postgres(host="source_postgres")
StartSourceProbe ==
    /\ pc = "init"
    /\ pc' = "probe_source"
    /\ CallWait(SourceHost, DefaultMaxRetries, DefaultDelaySeconds)
    /\ stages' = Append(stages, Stage("wait_for_postgres", SourceHost))
    /\ UNCHANGED <<log, config, source_config, destination_config, calls,
                   probe_results, exit_code, exc>>

\* SourceProbeFalse without the exit(1) of line 143: control reaches line 146
SourceProbeFalseNoExit ==
    /\ pc = "probe_source"
    /\ wpc = "returned"
    /\ ProbeFailed(result)
    /\ probe_results' = Append(probe_results,
                               ProbeResult(host, result, Len(outcomes)))
    /\ pc' = "probe_dest"
    /\ CallWait(DestinationHost, DefaultMaxRetries, DefaultDelaySeconds)
    /\ stages' = Append(stages, Stage("wait_for_postgres", DestinationHost))
    /\ UNCHANGED <<log, config, source_config, destination_config, calls,
                   exit_code, exc>>

\* lines 142-143 failing: exit(1) raises SystemExit(1)
SourceProbeFalse ==
    /\ pc = "probe_source"
    /\ wpc = "returned"
    /\ ProbeFailed(result)
    /\ probe_results' = Append(probe_results, ProbeResult(host, result, Len(outcomes)))
    /\ pc' = "exited"
    /\ exit_code' = 1
    /\ exc' = "SystemExit"
    /\ wpc' = "idle"
    /\ UNCHANGED <<host, max_retries, delay_seconds, retries, result,
                   outcomes, sleeps, log, config, source_config,
                   destination_config, calls, stages>>

\* SourceProbeTrue without the destination probe of lines 146-147
SourceProbeTrueSkipDest ==
    /\ pc = "probe_source"
    /\ wpc = "returned"
    /\ ~ProbeFailed(result)
    /\ probe_results' = Append(probe_results,
                               ProbeResult(host, result, Len(outcomes)))
    /\ log' = Append(log, LogInfo(MsgRunning))
    /\ pc' = "read_config"
    /\ wpc' = "idle"
    /\ UNCHANGED <<host, max_retries, delay_seconds, retries, result,
                   outcomes, sleeps, config, source_config,
                   destination_config, calls, stages, exit_code, exc>>

\* lines 142, 146: the source is available, call
\* wait_for_postgres(host="destination_postgres")
SourceProbeTrue ==
    /\ pc = "probe_source"
    /\ wpc = "returned"
    /\ ~ProbeFailed(result)
    /\ probe_results' = Append(probe_results, ProbeResult(host, result, Len(outcomes)))
    /\ pc' = "probe_dest"
    /\ CallWait(DestinationHost, DefaultMaxRetries, DefaultDelaySeconds)
    /\ stages' = Append(stages, Stage("wait_for_postgres", DestinationHost))
    /\ UNCHANGED <<log, config, source_config, destination_config, calls,
                   exit_code, exc>>

\* lines 146-147 failing: exit(1)
DestProbeFalse ==
    /\ pc = "probe_dest"
    /\ wpc = "returned"
    /\ ProbeFailed(result)
    /\ probe_results' = Append(probe_results, ProbeResult(host, result, Len(outcomes)))
    /\ pc' = "exited"
    /\ exit_code' = 1
    /\ exc' = "SystemExit"
    /\ wpc' = "idle"
    /\ UNCHANGED <<host, max_retries, delay_seconds, retries, result,
                   outcomes, sleeps, log, config, source_config,
                   destination_config, calls, stages>>

\* lines 146, 150: the destination is available, log "Running ELT pipeline..."
DestProbeTrue ==
    /\ pc = "probe_dest"
    /\ wpc = "returned"
    /\ ~ProbeFailed(result)
    /\ probe_results' = Append(probe_results, ProbeResult(host, result, Len(outcomes)))
    /\ log' = Append(log, LogInfo(MsgRunning))
    /\ pc' = "read_config"
    /\ wpc' = "idle"
    /\ UNCHANGED <<host, max_retries, delay_seconds, retries, result,
                   outcomes, sleeps, config, source_config,
                   destination_config, calls, stages, exit_code, exc>>

\* lines 142, 146: an exception leaving wait_for_postgres is not handled by
\* run_elt_pipeline: the interpreter prints the traceback and exits with 1
ProbeRaisePropagates ==
    /\ pc \in {"probe_source", "probe_dest"}
    /\ wpc = "raised"
    /\ pc' = "raised"
    /\ exc' = "OSError"
    /\ exit_code' = 1
    /\ wpc' = "idle"
    /\ UNCHANGED <<host, max_retries, delay_seconds, retries, result,
                   outcomes, sleeps, log, config, source_config,
                   destination_config, calls, stages, probe_results>>

\* ReadConfigOk with the returned pair unpacked in the wrong order
ReadConfigOkSwapped ==
    /\ pc = "read_config"
    /\ read_config(config).raised = "none"
    /\ stages' = Append(stages, Stage("read_config", ""))
    /\ source_config' = read_config(config).destination
    /\ destination_config' = read_config(config).source
    /\ pc' = "dump"
    /\ UNCHANGED <<proberVars, log, config, calls, probe_results,
                   exit_code, exc>>

\* line 153: read_config() returns the two dicts
ReadConfigOk ==
    /\ pc = "read_config"
    /\ read_config(config).raised = "none"
    /\ stages' = Append(stages, Stage("read_config", ""))
    /\ source_config' = read_config(config).source
    /\ destination_config' = read_config(config).destination
    /\ pc' = "dump"
    /\ UNCHANGED <<proberVars, log, config, calls, probe_results,
                   exit_code, exc>>

\* ReadConfigRaises as if line 153 were guarded like lines 156-160
ReadConfigRaisesCaught ==
    /\ pc = "read_config"
    /\ read_config(config).raised # "none"
    /\ stages' = Append(stages, Stage("read_config", ""))
    /\ log' = Append(log, LogError("Failed to read config: %s"))
    /\ pc' = "exited"
    /\ exc' = "SystemExit"
    /\ exit_code' = 1
    /\ UNCHANGED <<proberVars, config, source_config,
                   destination_config, calls, probe_results>>

\* line 153: read_config() raises; the call is outside any try
ReadConfigRaises ==
    /\ pc = "read_config"
    /\ read_config(config).raised # "none"
    /\ stages' = Append(stages, Stage("read_config", ""))
    /\ pc' = "raised"
    /\ exc' = read_config(config).raised
    /\ exit_code' = 1
    /\ UNCHANGED <<proberVars, log, config, source_config,
                   destination_config, calls, probe_results>>

\* lines 156-157: dump_data(source_config) returns
DumpOk ==
    /\ pc = "dump"
    /\ stages' = Append(stages, Stage("dump_data", ""))
    /\ calls' = Append(calls, ToolCall("dump_data", dump_command(source_config),
                                       subprocess_env(source_config), "ok"))
    /\ pc' = "load"
    /\ UNCHANGED <<proberVars, log, config, source_config,
                   destination_config, probe_results, exit_code, exc>>

\* DumpRaises without the exit(1) of line 160
DumpRaisesNoExit ==
    /\ pc = "dump"
    /\ \E o \in ToolOutcomes \ {"ok"} :
          calls' = Append(calls, ToolCall("dump_data",
                                          dump_command(source_config),
                                          subprocess_env(source_config), o))
    /\ stages' = Append(stages, Stage("dump_data", ""))
    /\ log' = Append(log, LogError(MsgDumpFailed))
    /\ pc' = "load"
    /\ UNCHANGED <<proberVars, config, source_config, destination_config,
                   probe_results, exit_code, exc>>

\* lines 156-160: dump_data raises an Exception: log the error, exit(1)
DumpRaises ==
    /\ pc = "dump"
    /\ \E o \in ToolOutcomes \ {"ok"} :
          calls' = Append(calls, ToolCall("dump_data",
                                          dump_command(source_config),
                                          subprocess_env(source_config), o))
    /\ stages' = Append(stages, Stage("dump_data", ""))
    /\ log' = Append(log, LogError(MsgDumpFailed))
    /\ pc' = "exited"
    /\ exit_code' = 1
    /\ exc' = "SystemExit"
    /\ UNCHANGED <<proberVars, config, source_config, destination_config,
                   probe_results>>

\* lines 163-164, 169: load_data(destination_config) returns, the pipeline
\* logs its completion and returns
LoadOk ==
    /\ pc = "load"
    /\ stages' = Append(stages, Stage("load_data", ""))
    /\ calls' = Append(calls, ToolCall("load_data",
                                       load_command(destination_config),
                                       subprocess_env(destination_config),
                                       "ok"))
    /\ log' = Append(log, LogInfo(MsgCompleted))
    /\ pc' = "done"
    /\ exit_code' = 0
    /\ UNCHANGED <<proberVars, config, source_config, destination_config,
                   probe_results, exc>>

\* LoadRaises without the exit(1) of line 167: control reaches line 169
LoadRaisesNoExit ==
    /\ pc = "load"
    /\ \E o \in ToolOutcomes \ {"ok"} :
          calls' = Append(calls, ToolCall("load_data",
                                          load_command(destination_config),
                                          subprocess_env(destination_config),
                                          o))
    /\ stages' = Append(stages, Stage("load_data", ""))
    /\ log' = log \o <<LogError(MsgLoadFailed), LogInfo(MsgCompleted)>>
    /\ pc' = "done"
    /\ exit_code' = 0
    /\ UNCHANGED <<proberVars, config, source_config, destination_config,
                   probe_results, exc>>

\* lines 163-167: load_data raises an Exception: log the error, exit(1)
LoadRaises ==
    /\ pc = "load"
    /\ \E o \in ToolOutcomes \ {"ok"} :
          calls' = Append(calls, ToolCall("load_data",
                                          load_command(destination_config),
                                          subprocess_env(destination_config),
                                          o))
    /\ stages' = Append(stages, Stage("load_data", ""))
    /\ log' = Append(log, LogError(MsgLoadFailed))
    /\ pc' = "exited"
    /\ exit_code' = 1
    /\ exc' = "SystemExit"
    /\ UNCHANGED <<proberVars, config, source_config, destination_config,
                   probe_results>>

Init ==
    /\ pc = "init"
    /\ wpc = "idle"
    /\ host = "none"
    /\ max_retries = 0
    /\ delay_seconds = 0
    /\ retries = 0
    /\ result = "none"
    /\ outcomes = <<>>
    /\ sleeps = 0
    /\ log = <<>>
    /\ config \in Configs
    /\ source_config = "none"
    /\ destination_config = "none"
    /\ calls = <<>>
    /\ stages = <<>>
    /\ probe_results = <<>>
    /\ exit_code = "none"
    /\ exc = "none"

Next ==
    \/ StartSourceProbe
    \/ ProbeAccepting
    \/ ProbeNoMarker
    \/ ProbeNonZero
    \/ ProbeOSError
    \/ ProbeExhausted
    \/ SourceProbeFalse
    \/ SourceProbeTrue
    \/ DestProbeFalse
    \/ DestProbeTrue
    \/ ProbeRaisePropagates
    \/ ReadConfigOk
    \/ ReadConfigRaises
    \/ DumpOk
    \/ DumpRaises
    \/ LoadOk
    \/ LoadRaises

Spec == Init /\ [][Next]_vars

\* Both entry points: a run of the pipeline or a direct call of the prober.
InitBoth == Init \/ InitProber

SpecBoth == InitBoth /\ [][Next]_vars

(***************************************************************************)
(* Vocabulary of the properties.                                           *)
(***************************************************************************)
Invoked(fn) == \E i \in 1..Len(stages) : stages[i].fn = fn

Logged(rec) == \E i \in 1..Len(log) : log[i] = rec

\* wait_for_postgres has returned False in this run
ProbeReturnedFalse ==
    \/ \E i \in 1..Len(probe_results) : probe_results[i].result = FALSE
    \/ (wpc = "returned" /\ result = FALSE)

\* pg_isready has been run at least once in this run
ProbeInvoked ==
    \/ outcomes # <<>>
    \/ \E i \in 1..Len(probe_results) : probe_results[i].attempts > 0

ExtractSucceeded ==
    \E i \in 1..Len(calls) :
        calls[i].fn = "dump_data" /\ calls[i].outcome = "ok"

ExtractRaised ==
    \E i \in 1..Len(calls) :
        calls[i].fn = "dump_data" /\ calls[i].outcome # "ok"

NoToolFailed == \A i \in 1..Len(calls) : calls[i].outcome = "ok"

CallCount(fn) == Cardinality({i \in 1..Len(calls) : calls[i].fn = fn})

Terminated == pc \in {"done", "exited", "raised"}

\* a probe attempt the specification calls failed: a non-zero exit, or a
\* zero exit whose output lacks "accepting connections"
FailedOutcomes == {"nonzero", "no_marker"}

AllAttemptsFailed ==
    \A i \in 1..Len(outcomes) : outcomes[i] \in FailedOutcomes

\* a required section is absent from config.ini
RequiredSectionMissing ==
    \/ ~has_section(config, "source_postgres")
    \/ ~has_section(config, "destination_postgres")

\* config.ini has exactly the two required sections, each with all four keys
OnlyRequiredSectionsFull ==
    /\ DOMAIN config = {"source_postgres", "destination_postgres"}
    /\ \A s \in DOMAIN config : DOMAIN config[s] = ConfigKeys

BothProbesFirstAttempt ==
    probe_results = <<ProbeResult(SourceHost, TRUE, 1),
                      ProbeResult(DestinationHost, TRUE, 1)>>

(***************************************************************************)
(* C1 (SpecProber): a call of wait_for_postgres with max_retries = N runs   *)
(* pg_isready at most N times and ends by returning true or false,          *)
(* whatever sequence of exit-0-with-marker, exit-0-without-marker and       *)
(* non-zero-exit outcomes the probes give.                                  *)
(***************************************************************************)
C1_AtMostNProbesThenReturns ==
    (\A i \in 1..Len(outcomes) :
         outcomes[i] \in {"accepting", "no_marker", "nonzero"})
    => /\ Len(outcomes) <= max_retries
       /\ wpc \in {"running", "returned"}
       /\ (wpc = "returned" => result \in BOOLEAN)

(***************************************************************************)
(* C2 (SpecProber): an attempt that exits 0 without the marker increments   *)
(* the attempt counter and is followed by a sleep, like a non-zero exit.    *)
(***************************************************************************)
C2_NoMarkerCountsAsFailure ==
    [][outcomes' = Append(outcomes, "no_marker")
         => (retries' = retries + 1 /\ sleeps' = sleeps + 1)]_vars

(***************************************************************************)
(* C3 (Spec): once a probe has returned false, the configuration is never   *)
(* read and neither Extract nor Load is invoked in that run.                *)
(***************************************************************************)
C3_NoExtractAfterFailedProbe ==
    ProbeReturnedFalse =>
        /\ ~Invoked("read_config")
        /\ ~Invoked("dump_data")
        /\ ~Invoked("load_data")
        /\ calls = <<>>

\* the destination probe has failed all 5 default retries and the run ended
C3_Witness ==
    /\ pc = "exited"
    /\ Len(probe_results) = 2
    /\ probe_results[2].host = DestinationHost
    /\ probe_results[2].result = FALSE
    /\ probe_results[2].attempts = DefaultMaxRetries
    /\ retries = DefaultMaxRetries
    /\ ~Invoked("dump_data")

(***************************************************************************)
(* C4 (Spec): Load is invoked only after Extract has returned successfully; *)
(* when Extract raises, Load is never invoked, the error "Failed to dump    *)
(* data" is logged and the run ends with exit(1).                           *)
(***************************************************************************)
C4_LoadOnlyAfterExtract ==
    /\ Invoked("load_data") =>
          /\ ExtractSucceeded
          /\ \E i, j \in 1..Len(stages) :
                /\ i < j
                /\ stages[i].fn = "dump_data"
                /\ stages[j].fn = "load_data"
    /\ ExtractRaised =>
          /\ ~Invoked("load_data")
          /\ Logged(LogError(MsgDumpFailed))
          /\ pc = "exited"
          /\ exit_code = 1

\* Extract has raised and the run has ended
C4_Witness ==
    /\ ExtractRaised
    /\ pc = "exited"
    /\ log[Len(log)] = LogError(MsgDumpFailed)

(***************************************************************************)
(* C5 (Spec): with only the two required sections, fully populated, both    *)
(* probes succeeding on the first attempt and no tool failing, a finished   *)
(* run is DONE: configs returned, Extract and Load invoked once each,       *)
(* "ELT pipeline completed" logged, exit code 0.                            *)
(***************************************************************************)
C5_HappyPathCompletes ==
    (OnlyRequiredSectionsFull /\ BothProbesFirstAttempt /\ NoToolFailed
       /\ Terminated)
    => /\ pc = "done"
       /\ exit_code = 0
       /\ source_config # "none"
       /\ destination_config # "none"
       /\ CallCount("dump_data") = 1
       /\ CallCount("load_data") = 1
       /\ Logged(LogInfo(MsgCompleted))

(***************************************************************************)
(* C6 as stated (Spec): the missing-section error of read_config occurs     *)
(* before any readiness check has been run.                                 *)
(***************************************************************************)
C6_ConfigErrorBeforeProbes ==
    exc = "ValueError" => ~ProbeInvoked

(***************************************************************************)
(* C6 amended (Spec): the missing-section error of read_config occurs only  *)
(* when a required section is missing, after the source probe and then the  *)
(* destination probe have both returned true, and before any Extract or     *)
(* Load invocation.                                                         *)
(***************************************************************************)
C6_ConfigErrorAfterProbes ==
    exc = "ValueError" =>
        /\ RequiredSectionMissing
        /\ Len(probe_results) = 2
        /\ probe_results[1].host = SourceHost
        /\ probe_results[1].result = TRUE
        /\ probe_results[1].attempts > 0
        /\ probe_results[2].host = DestinationHost
        /\ probe_results[2].result = TRUE
        /\ probe_results[2].attempts > 0
        /\ calls = <<>>
        /\ ~Invoked("dump_data")
        /\ ~Invoked("load_data")

\* read_config has raised for a missing section
C6_Witness ==
    /\ exc = "ValueError"
    /\ pc = "raised"
    /\ RequiredSectionMissing
    /\ Invoked("read_config")

(***************************************************************************)
(* C7 (SpecProber): with max_retries = 0 the call runs no probe, does not   *)
(* sleep and returns false, for every host and delay_seconds.               *)
(***************************************************************************)
C7_ZeroRetriesReturnsFalse ==
    max_retries = 0 =>
        /\ outcomes = <<>>
        /\ sleeps = 0
        /\ wpc \in {"running", "returned"}
        /\ (wpc = "returned" => result = FALSE)

\* a call with max_retries = 0 and a positive delay has returned
C7_Witness ==
    /\ max_retries = 0
    /\ delay_seconds > 0
    /\ wpc = "returned"
    /\ result = FALSE

(***************************************************************************)
(* C8 (SpecProber): for max_retries = N > 0, when every attempt fails the   *)
(* call makes exactly N attempts and then returns false: never more than N  *)
(* attempts, and exactly N when it has returned.                            *)
(***************************************************************************)
C8_ExactlyNAttemptsWhenAllFail ==
    (max_retries > 0 /\ AllAttemptsFailed) =>
        /\ Len(outcomes) <= max_retries
        /\ (wpc = "returned" =>
               Len(outcomes) = max_retries /\ result = FALSE)

(***************************************************************************)
(* C9 (SpecProber): when the first success comes on attempt k <= N after    *)
(* k-1 failed attempts, the call has returned true with exactly k attempts  *)
(* and exactly k-1 sleeps.                                                  *)
(***************************************************************************)
C9_SuccessAtKAfterKMinus1Sleeps ==
    (/\ outcomes # <<>>
     /\ Len(outcomes) <= max_retries
     /\ outcomes[Len(outcomes)] = "accepting"
     /\ \A i \in 1..(Len(outcomes) - 1) : outcomes[i] \in FailedOutcomes)
    => /\ wpc = "returned"
       /\ result = TRUE
       /\ sleeps = Len(outcomes) - 1

(***************************************************************************)
(* C10 (SpecProber): no failure of the probe tool leaves wait_for_postgres  *)
(* as an exception; the call is running or has returned a boolean.          *)
(***************************************************************************)
C10_NeverRaises ==
    /\ wpc # "raised"
    /\ (wpc = "returned" => result \in BOOLEAN)

(***************************************************************************)
(* Vocabulary of the properties about the end of a run.                    *)
(***************************************************************************)
LoadSucceeded ==
    \E i \in 1..Len(calls) :
        calls[i].fn = "load_data" /\ calls[i].outcome = "ok"

LoadRaised ==
    \E i \in 1..Len(calls) :
        calls[i].fn = "load_data" /\ calls[i].outcome # "ok"

\* a wait_for_postgres call on host h has returned r to the orchestrator
ProbeReturned(h, r) ==
    \E i \in 1..Len(probe_results) :
        probe_results[i].host = h /\ probe_results[i].result = r

\* read_config has been called and has returned the two dicts
ConfigurationRead ==
    /\ Invoked("read_config")
    /\ read_config(config).raised = "none"

EveryStageSucceeded ==
    /\ ProbeReturned(SourceHost, TRUE)
    /\ ProbeReturned(DestinationHost, TRUE)
    /\ ConfigurationRead
    /\ ExtractSucceeded
    /\ LoadSucceeded

(***************************************************************************)
(* C11 (Spec): a run has an exit code only once it has ended; the code is   *)
(* 0 exactly when both probes returned true, the configuration was read and *)
(* Extract and Load succeeded; it is 1 whenever a probe returned false to   *)
(* the orchestrator or Extract or Load raised.                              *)
(***************************************************************************)
C11_ExitCodes ==
    /\ ~Terminated => exit_code = "none"
    /\ Terminated =>
          /\ exit_code \in {0, 1}
          /\ (exit_code = 0) <=> EveryStageSucceeded
          /\ (\/ ProbeReturned(SourceHost, FALSE)
              \/ ProbeReturned(DestinationHost, FALSE)
              \/ ExtractRaised
              \/ LoadRaised) => exit_code = 1
    /\ (\/ ProbeReturned(SourceHost, FALSE)
        \/ ProbeReturned(DestinationHost, FALSE)
        \/ ExtractRaised
        \/ LoadRaised) => Terminated

\* Load has raised and the run has ended with exit code 1
C11_Witness ==
    /\ LoadRaised
    /\ Terminated
    /\ exit_code = 1
    /\ ExtractSucceeded

(***************************************************************************)
(* C12 (Spec): a run that has ended because a stage failed (a probe         *)
(* returned false, the configuration read raised, Extract or Load raised)   *)
(* has emitted at least one error-level log line; and "ELT pipeline         *)
(* completed" is logged only when every stage succeeded.                    *)
(***************************************************************************)
ErrorLogged == \E i \in 1..Len(log) : log[i].level = "error"

ConfigurationReadRaised ==
    /\ Invoked("read_config")
    /\ read_config(config).raised # "none"

StageFailed ==
    \/ ProbeReturned(SourceHost, FALSE)
    \/ ProbeReturned(DestinationHost, FALSE)
    \/ ConfigurationReadRaised
    \/ ExtractRaised
    \/ LoadRaised

C12_EveryFailureIsLogged ==
    /\ (Terminated /\ StageFailed) => ErrorLogged
    /\ Logged(LogInfo(MsgCompleted)) => EveryStageSucceeded

(***************************************************************************)
(* C13 (Spec): every Extract invocation carries the host, user, dbname and  *)
(* password of the source record and every Load invocation those of the     *)
(* destination record; the source record is built from the source section   *)
(* of config.ini and the destination record from the destination section.   *)
(***************************************************************************)
\* the connection parameters an invocation passes to its tool
ConnectionOf(call) ==
    [host |-> call.cmd[3], user |-> call.cmd[5], dbname |-> call.cmd[7],
     password |-> call.env.PGPASSWORD]

C13_ConfigsNeverSwapped ==
    \A i \in 1..Len(calls) :
        /\ calls[i].fn = "dump_data" =>
              /\ calls[i].cmd[1] = "pg_dump"
              /\ ConnectionOf(calls[i]) = source_config
              /\ source_config = BuildConfig(config, SourceSection)
        /\ calls[i].fn = "load_data" =>
              /\ calls[i].cmd[1] = "psql"
              /\ ConnectionOf(calls[i]) = destination_config
              /\ destination_config = BuildConfig(config, DestinationSection)

\* a run with different source and destination records has done both
\* invocations
C13_Witness ==
    /\ pc = "done"
    /\ CallCount("dump_data") = 1
    /\ CallCount("load_data") = 1
    /\ source_config # destination_config

(***************************************************************************)
(* C14 (Spec): the stages invoked so far are always an initial part of      *)
(* source probe, destination probe, Config Provider, Extract, Load (fixed   *)
(* order, each at most once), and a failed stage is the last one invoked:   *)
(* the run has ended and no later stage follows it.                         *)
(***************************************************************************)
StageOrder ==
    <<Stage("wait_for_postgres", SourceHost),
      Stage("wait_for_postgres", DestinationHost),
      Stage("read_config", ""),
      Stage("dump_data", ""),
      Stage("load_data", "")>>

IsPrefix(s, t) == Len(s) <= Len(t) /\ s = SubSeq(t, 1, Len(s))

C14_FixedOrderFailedAbsorbing ==
    /\ IsPrefix(stages, StageOrder)
    /\ ProbeReturned(SourceHost, FALSE) => (Len(stages) = 1 /\ pc = "exited")
    /\ ProbeReturned(DestinationHost, FALSE) =>
          (Len(stages) = 2 /\ pc = "exited")
    /\ ConfigurationReadRaised => (Len(stages) = 3 /\ pc = "raised")
    /\ ExtractRaised => (Len(stages) = 4 /\ pc = "exited")
    /\ LoadRaised => (Len(stages) = 5 /\ pc = "exited")
    /\ (pc = "raised" /\ exc = "OSError") => Len(stages) \in {1, 2}

\* the source probe has returned false and the run has ended there
C14_Witness ==
    /\ ProbeReturned(SourceHost, FALSE)
    /\ pc = "exited"
    /\ stages = <<Stage("wait_for_postgres", SourceHost)>>

(***************************************************************************)
(* C15 (Spec): when read_config raises inside the pipeline (missing         *)
(* section or missing key), that same exception leaves the program: the     *)
(* orchestrator logs nothing after "Running ELT pipeline...", does not      *)
(* turn it into exit(1), and invokes neither Extract nor Load.              *)
(***************************************************************************)
ConfigErrors == {"ValueError", "NoSectionError", "NoOptionError"}

C15_ConfigErrorPropagates ==
    ConfigurationReadRaised =>
        /\ pc = "raised"
        /\ exc \in ConfigErrors
        /\ exc = read_config(config).raised
        /\ log # <<>>
        /\ log[Len(log)] = LogInfo(MsgRunning)
        /\ \A i \in 1..Len(log) :
              log[i].level = "error" => log[i].msg = MsgNotAvailable
        /\ calls = <<>>
        /\ ~Invoked("dump_data")
        /\ ~Invoked("load_data")

\* read_config has raised for a missing key
C15_Witness ==
    /\ ConfigurationReadRaised
    /\ exc = "NoOptionError"
    /\ pc = "raised"

(***************************************************************************)
(* C16 (Spec): the host given to the source probe is the host attribute of  *)
(* the source record, which Extract connects to, and the host given to the  *)
(* destination probe is the host attribute of the destination record,       *)
(* which Load connects to.                                                  *)
(***************************************************************************)
C16_ProbedHostIsConfiguredHost ==
    /\ ConfigurationRead =>
          /\ Len(probe_results) = 2
          /\ probe_results[1].host = source_config["host"]
          /\ probe_results[2].host = destination_config["host"]
    /\ \A i \in 1..Len(calls) :
          /\ calls[i].fn = "dump_data" =>
                ConnectionOf(calls[i]).host = probe_results[1].host
          /\ calls[i].fn = "load_data" =>
                ConnectionOf(calls[i]).host = probe_results[2].host

(***************************************************************************)
(* C17 (SpecProber): in a call of wait_for_postgres the number of sleeps    *)
(* always equals the number of attempts that exited non-zero; when all N    *)
(* attempts exited non-zero and false is returned, N sleeps have occurred,  *)
(* the last one after the Nth failure.                                      *)
(***************************************************************************)
NonZeroCount ==
    Cardinality({i \in 1..Len(outcomes) : outcomes[i] = "nonzero"})

AllAttemptsNonZero ==
    \A i \in 1..Len(outcomes) : outcomes[i] = "nonzero"

C17_OneSleepPerNonZeroExit ==
    /\ sleeps = NonZeroCount
    /\ (wpc = "returned" /\ result = FALSE /\ AllAttemptsNonZero) =>
          /\ Len(outcomes) = max_retries
          /\ sleeps = max_retries

\* every one of N >= 2 attempts exited non-zero and false was returned
C17_Witness ==
    /\ wpc = "returned"
    /\ result = FALSE
    /\ max_retries >= 2
    /\ AllAttemptsNonZero
    /\ Len(outcomes) = max_retries
    /\ sleeps = max_retries

(***************************************************************************)
(* C18 (SpecBoth): wait_for_postgres returns true only when its last probe  *)
(* attempt exited zero with "accepting connections", and false only when    *)
(* retries has reached max_retries; so Extract is invoked only after the    *)
(* source probe and then the destination probe each ended with such an      *)
(* attempt.                                                                 *)
(***************************************************************************)
AvailableLogCount ==
    Cardinality({i \in 1..Len(log) : log[i] = LogInfo(MsgAvailable)})

C18_TrueOnlyAfterMarker ==
    /\ (wpc = "returned" /\ result = TRUE) =>
          /\ outcomes # <<>>
          /\ outcomes[Len(outcomes)] = "accepting"
          /\ \A i \in 1..(Len(outcomes) - 1) : outcomes[i] # "accepting"
    /\ (wpc = "returned" /\ result = FALSE) =>
          /\ retries = max_retries
          /\ \A i \in 1..Len(outcomes) : outcomes[i] # "accepting"
    /\ Invoked("dump_data") =>
          /\ Len(probe_results) = 2
          /\ probe_results[1].host = SourceHost
          /\ probe_results[1].result = TRUE
          /\ probe_results[1].attempts >= 1
          /\ probe_results[2].host = DestinationHost
          /\ probe_results[2].result = TRUE
          /\ probe_results[2].attempts >= 1
          /\ outcomes[Len(outcomes)] = "accepting"
          /\ AvailableLogCount = 2

\* Extract has been invoked after both probes needed more than one attempt
C18_Witness ==
    /\ Invoked("dump_data")
    /\ probe_results[1].attempts >= 2
    /\ probe_results[2].attempts >= 2
    /\ retries >= 1

====
